---- MODULE Spec2Model ----
(***************************************************************************)
(* Restaurant Billing App (CLI), src/PROJECT.py, as a state machine.       *)
(*                                                                         *)
(* One interactive session: choose a category, pick items with quantities, *)
(* give a customer name, render the receipt, print it, save it.            *)
(*                                                                         *)
(* Strings are sequences of characters.  A character is a one-letter       *)
(* string, except two non-ASCII characters that are written by name:       *)
(*   "SUP2"  U+00B2 SUPERSCRIPT TWO         (a digit, not a decimal)       *)
(*   "AI3"   U+0663 ARABIC-INDIC DIGIT THREE (a decimal digit, value 3)    *)
(* Python ints are unbounded: an int is the sequence of its digits in base  *)
(* 2^15, least significant first, without leading zeros (<<>> is 0).       *)
(* Python floats are IEEE-754 doubles: a pair [m, e] standing for m * 2^e  *)
(* with m an int of at most 53 significant bits.                           *)
(***************************************************************************)
EXTENDS Integers, Sequences, FiniteSets, TLC

\* ------------------------------------------------------------------ bounds
\* Most line items one order may hold in the model (the code has no limit).
MaxItems == 2
\* datetime.now() answers 1..MaxClock.
MaxClock == 1

\* ------------------------------------------------------- characters, strings
Max(a, b) == IF a >= b THEN a ELSE b
Min(a, b) == IF a <= b THEN a ELSE b

AsciiDigitValue ==
  [c \in {"0", "1", "2", "3", "4", "5", "6", "7", "8", "9"} |->
     CASE c = "0" -> 0 [] c = "1" -> 1 [] c = "2" -> 2 [] c = "3" -> 3
       [] c = "4" -> 4 [] c = "5" -> 5 [] c = "6" -> 6 [] c = "7" -> 7
       [] c = "8" -> 8 [] c = "9" -> 9]

\* Unicode decimal digits (Nd) of the alphabet, with their values.
IsDecimalChar(c) == c \in DOMAIN AsciiDigitValue \/ c = "AI3"
DecimalValue(c) == IF c = "AI3" THEN 3 ELSE AsciiDigitValue[c]

\* Characters with the Unicode property Numeric_Type=Digit or Decimal:
\* what str.isdigit() looks at.
IsDigitChar(c) == IsDecimalChar(c) \/ c = "SUP2"

IsSpaceChar(c) == c \in {" ", "\t"}

LowerLetters == <<"a", "b", "c", "d", "e", "f", "g", "h", "i", "j", "k", "l", "m",
                  "n", "o", "p", "q", "r", "s", "t", "u", "v", "w", "x", "y", "z">>
UpperLetters == <<"A", "B", "C", "D", "E", "F", "G", "H", "I", "J", "K", "L", "M",
                  "N", "O", "P", "Q", "R", "S", "T", "U", "V", "W", "X", "Y", "Z">>

UpperChar(c) ==
  IF \E i \in 1..26 : LowerLetters[i] = c
  THEN UpperLetters[CHOOSE i \in 1..26 : LowerLetters[i] = c]
  ELSE c

LowerChar(c) ==
  IF \E i \in 1..26 : UpperLetters[i] = c
  THEN LowerLetters[CHOOSE i \in 1..26 : UpperLetters[i] = c]
  ELSE c

\* str.upper(), str.lower()
StrUpper(s) == [i \in 1..Len(s) |-> UpperChar(s[i])]
StrLower(s) == [i \in 1..Len(s) |-> LowerChar(s[i])]

\* str.strip(): white space removed at both ends.
StrStrip(s) ==
  LET idx == {i \in 1..Len(s) : ~IsSpaceChar(s[i])}
  IN  IF idx = {} THEN <<>>
      ELSE LET lo == CHOOSE i \in idx : \A j \in idx : i <= j
               hi == CHOOSE i \in idx : \A j \in idx : i >= j
           IN  SubSeq(s, lo, hi)

\* str.isdigit(): non-empty and every character a digit.
StrIsDigit(s) == Len(s) > 0 /\ \A i \in 1..Len(s) : IsDigitChar(s[i])

\* ----------------------------------------------------------- configuration
BRAND == "Sai Krishna Restaurant"

Veg == <<"v", "e", "g">>
NonVeg == <<"n", "o", "n", "v", "e", "g">>

\* MENUS: category -> items in insertion order, each <<name, price>>.
MenuKeys == {Veg, NonVeg}

MENUS(category) ==
  IF category = Veg
  THEN << <<"Idli", 50>>, <<"Dosa", 50>>, <<"Veg Biryani", 100>>,
          <<"Chapathi", 50>>, <<"Parota", 50>>, <<"Pulihora", 50>>,
          <<"Veg Fried Rice", 100>>, <<"Veg Noodles", 100>> >>
  ELSE << <<"Chicken Idli", 100>>, <<"Chicken Dosa", 100>>,
          <<"Chicken Chapathi", 100>>, <<"Chicken Parota", 100>>,
          <<"Egg Fried Rice", 100>>, <<"Egg Noodles", 100>>,
          <<"Chicken Fried Rice", 299>>, <<"Chicken Noodles", 299>>,
          <<"Biryani", 299>>, <<"Dum Biryani", 299>>, <<"Mandi", 299>>,
          <<"String Biryani", 299>>, <<"Frontier Biryani", 299>>,
          <<"Chicken Lollipop", 299>> >>

\* --------------------------------------------------------------- item codes
DigitChars == <<"0", "1", "2", "3", "4", "5", "6", "7", "8", "9">>

RECURSIVE DecimalChars(_)
\* str(n) for n >= 0
DecimalChars(n) ==
  IF n < 10 THEN <<DigitChars[n + 1]>>
  ELSE Append(DecimalChars(n \div 10), DigitChars[(n % 10) + 1])

\* f"{idx:02d}": decimal, zero-padded on the left to width 2.
Format02d(idx) ==
  LET d == DecimalChars(idx)
  IN  IF Len(d) < 2 THEN <<"0">> \o d ELSE d

\* f"{category[0].upper()}{idx:02d}"
CodeStr(category, idx) == StrUpper(<<category[1]>>) \o Format02d(idx)

\* ------------------------------------------------------------- Python ints
\* An int is its digits ("limbs") in base Base, least significant first, the
\* last one not 0; 0 is <<>>.
Base == 2 ^ 15
LimbBits == CHOOSE k \in 1..30 : 2 ^ k = Base

RECURSIVE Canon(_)
Canon(a) ==
  IF Len(a) = 0 \/ a[Len(a)] > 0 THEN a ELSE Canon(SubSeq(a, 1, Len(a) - 1))

RECURSIVE IntOfNat(_)
\* the int of a small natural number
IntOfNat(n) == IF n = 0 THEN <<>> ELSE <<n % Base>> \o IntOfNat(n \div Base)

LimbAt(a, i) == IF i <= Len(a) THEN a[i] ELSE 0

RECURSIVE AddFrom(_, _, _, _, _)
AddFrom(a, b, i, carry, acc) ==
  IF i > Max(Len(a), Len(b))
  THEN IF carry > 0 THEN Append(acc, carry) ELSE acc
  ELSE LET t == LimbAt(a, i) + LimbAt(b, i) + carry
       IN  AddFrom(a, b, i + 1, t \div Base, Append(acc, t % Base))

\* a + b
IntAdd(a, b) == AddFrom(a, b, 1, 0, <<>>)

RECURSIVE MulSmallFrom(_, _, _, _, _)
MulSmallFrom(a, k, i, carry, acc) ==
  IF i > Len(a)
  THEN IF carry > 0 THEN Append(acc, carry) ELSE acc
  ELSE LET t == a[i] * k + carry
       IN  MulSmallFrom(a, k, i + 1, t \div Base, Append(acc, t % Base))

\* a * k for a natural number k < Base
IntMulSmall(a, k) == IF k = 0 THEN <<>> ELSE MulSmallFrom(a, k, 1, 0, <<>>)

\* a * Base^j
LimbShift(a, j) == IF Len(a) = 0 THEN a ELSE [i \in 1..j |-> 0] \o a

RECURSIVE MulFrom(_, _, _, _)
\* long multiplication: a shifted multiple of a for every limb of b
MulFrom(a, b, j, acc) ==
  IF j > Len(b) THEN acc
  ELSE MulFrom(a, b, j + 1,
               IntAdd(acc, LimbShift(IntMulSmall(a, b[j]), j - 1)))

\* a * b
IntMul(a, b) == MulFrom(a, b, 1, <<>>)

RECURSIVE DivSmallFrom(_, _, _, _, _)
DivSmallFrom(a, d, i, rem, acc) ==
  IF i = 0
  THEN [q |-> Canon(acc), r |-> rem]
  ELSE LET t == rem * Base + a[i]
       IN  DivSmallFrom(a, d, i - 1, t % d, <<t \div d>> \o acc)

\* quotient and remainder of a by a natural number d, 0 < d <= Base
IntDivModSmall(a, d) == DivSmallFrom(a, d, Len(a), 0, <<>>)

RECURSIVE NatBitLength(_)
NatBitLength(n) == IF n = 0 THEN 0 ELSE 1 + NatBitLength(n \div 2)

\* int.bit_length()
BitLength(a) ==
  IF Len(a) = 0 THEN 0 ELSE LimbBits * (Len(a) - 1) + NatBitLength(a[Len(a)])

\* a * 2^k
ShiftLeft(a, k) == LimbShift(IntMulSmall(a, 2 ^ (k % LimbBits)), k \div LimbBits)

\* a \div 2^k
ShiftRight(a, k) ==
  IF k \div LimbBits >= Len(a) THEN <<>>
  ELSE IntDivModSmall(SubSeq(a, (k \div LimbBits) + 1, Len(a)),
                      2 ^ (k % LimbBits)).q

\* bit i of a, the least significant being bit 1
BitAt(a, i) ==
  (LimbAt(a, ((i - 1) \div LimbBits) + 1) \div (2 ^ ((i - 1) % LimbBits))) % 2

\* a % 2^k > 0
LowBitsSet(a, k) ==
  \/ \E i \in 1..Min(k \div LimbBits, Len(a)) : a[i] > 0
  \/ LimbAt(a, (k \div LimbBits) + 1) % (2 ^ (k % LimbBits)) > 0

RECURSIVE ParseFrom(_, _, _)
ParseFrom(s, i, acc) ==
  IF i > Len(s) THEN acc
  ELSE ParseFrom(s, i + 1,
                 IntAdd(IntMulSmall(acc, 10), IntOfNat(DecimalValue(s[i]))))

\* int(s) for a string s of digit characters raises ValueError unless every
\* character is a decimal digit, and is the decimal value otherwise.
IntOfStrRaises(s) == \E i \in 1..Len(s) : ~IsDecimalChar(s[i])
IntOfStr(s) == ParseFrom(s, 1, <<>>)

\* a > 0
IntPositive(a) == Len(a) > 0

\* ----------------------------------------------------------- Python floats
\* Significant bits of an IEEE-754 double.
MantissaBits == 53

\* The double nearest to (n + f) * 2^e, ties to even, where 0 <= f < 1 and
\* sticky says f > 0; n has more than MantissaBits bits whenever sticky.
RoundBits(n, e, sticky) ==
  IF BitLength(n) <= MantissaBits
  THEN [m |-> n, e |-> e]
  ELSE LET k == BitLength(n) - MantissaBits
           top == ShiftRight(n, k)
           half == BitAt(n, k) = 1
           rest == sticky \/ LowBitsSet(n, k - 1)
           up == half /\ (rest \/ BitAt(top, 1) = 1)
       IN  [m |-> IF up THEN IntAdd(top, <<1>>) ELSE top, e |-> e + k]

\* float(n) of an int
FloatOfInt(n) == RoundBits(n, 0, FALSE)

\* x * y
FloatMul(x, y) == RoundBits(IntMul(x.m, y.m), x.e + y.e, FALSE)

\* x + y
FloatAdd(x, y) ==
  LET e == Min(x.e, y.e)
  IN  RoundBits(IntAdd(ShiftLeft(x.m, x.e - e), ShiftLeft(y.m, y.e - e)), e, FALSE)

\* Bits of the quotient kept by FloatOfRatio: MantissaBits, a rounding bit
\* and as many as the divisor has at most.
QuotientBits == MantissaBits + 11

\* The double nearest to n / d for an int n and a small d > 0: what the
\* parser makes of a decimal literal, and round() of its decimal digits.
FloatOfRatio(n, d) ==
  LET k == Max(0, QuotientBits - BitLength(n))
      qr == IntDivModSmall(ShiftLeft(n, k), d)
  IN  RoundBits(qr.q, 0 - k, qr.r > 0)

\* The integer nearest to x * 10^2, ties to even: the digits that
\* round(x, 2) and the format ".2f" produce, as a number of hundredths.
Hundredths(x) ==
  LET n == IntMulSmall(x.m, 100)
      k == 0 - x.e
  IN  IF k <= 0 THEN ShiftLeft(n, 0 - k)
      ELSE LET q == ShiftRight(n, k)
               half == BitAt(n, k) = 1
               rest == LowBitsSet(n, k - 1)
               up == half /\ (rest \/ BitAt(q, 1) = 1)
           IN  IF up THEN IntAdd(q, <<1>>) ELSE q

\* round(x, 2)
Round2(x) == FloatOfRatio(Hundredths(x), 100)

\* TAX_RATE = 0.05
TAX_RATE == FloatOfRatio(IntOfNat(5), 100)

\* --------------------------------------------------------------- data model
\* An optional value is a sequence: <<>> for None, <<x>> for x.
None == <<>>
Some(x) == <<x>>

\* LineItem(name, unit_price, qty); unit_price is a catalog price, qty an int.
LineItem(name, unit_price, qty) ==
  [name |-> name, unit_price |-> unit_price, qty |-> qty]

\* LineItem.total
LineItemTotal(it) == IntMulSmall(it.qty, it.unit_price)

\* Order(category, items, created_at): the dataclass stores what it is given.
Order(category, its, created_at) ==
  [category |-> category, items |-> its, created_at |-> created_at]

RECURSIVE SumFrom(_, _, _)
SumFrom(its, i, acc) ==
  IF i > Len(its) THEN acc
  ELSE SumFrom(its, i + 1, IntAdd(acc, LineItemTotal(its[i])))

\* OrderSubtotal, were the first line item left out.
OrderSubtotal_SkipsFirst(o) == SumFrom(o.items, 2, <<>>)

\* Order.subtotal: sum(it.total for it in self.items)
OrderSubtotal(o) == SumFrom(o.items, 1, <<>>)

\* Order.tax: round(self.subtotal * TAX_RATE, 2)
OrderTax(o) == Round2(FloatMul(FloatOfInt(OrderSubtotal(o)), TAX_RATE))

\* Order.grand_total: round(self.subtotal + self.tax, 2)
OrderGrandTotal(o) ==
  Round2(FloatAdd(FloatOfInt(OrderSubtotal(o)), OrderTax(o)))

\* ------------------------------------------------------------------- menus
\* display_menu(category): the rows it prints and returns, (code, price, name).
DisplayMenu(category) ==
  [idx \in 1..Len(MENUS(category)) |->
     <<CodeStr(category, idx), MENUS(category)[idx][2], MENUS(category)[idx][1]>>]

\* BuildCodeMap, were its enumerate() to start at 0.
BuildCodeMap_FromZero(category) ==
  [k \in {CodeStr(category, i - 1) : i \in 1..Len(MENUS(category))} |->
     MENUS(category)[CHOOSE i \in 1..Len(MENUS(category)) :
                       CodeStr(category, i - 1) = k]]

\* build_code_map(category): code -> (name, price).  A dict built from
\* (key, value) pairs keeps, for a key given twice, the last value.
BuildCodeMap(category) ==
  LET n == Len(MENUS(category))
      keys == {CodeStr(category, i) : i \in 1..n}
      last(k) == CHOOSE i \in 1..n :
                   /\ CodeStr(category, i) = k
                   /\ \A j \in 1..n : CodeStr(category, j) = k => j <= i
  IN  [k \in keys |-> MENUS(category)[last(k)]]

\* ----------------------------------------------------------------- receipt
\* hash(order.created_at), fixed within one run
HashOf(t) == <<"hash", t>>

\* f"ORD-{created_at:%Y%m%d}-{str(abs(hash(created_at)))[:6]}"
OrderId(created_at) == <<"ORD", created_at, HashOf(created_at)>>

RECURSIVE ItemRows(_, _)
ItemRows(its, i) ==
  IF i > Len(its) THEN <<>>
  ELSE << <<its[i].name, its[i].qty, its[i].unit_price, LineItemTotal(its[i])>> >>
       \o ItemRows(its, i + 1)

\* render_receipt(order, customer_name): the text, as its lines; a line is a
\* tuple of the fields that the format string lays out.  Amounts formatted
\* with ".2f" are given in hundredths.
RenderReceipt(o, customer_name) ==
  LET header == << <<"title", BRAND>>, <<"=">>,
                   <<"Order ID", OrderId(o.created_at)>>,
                   <<"Date", o.created_at>>,
                   <<"Category", StrUpper(o.category)>> >>
                \o (IF customer_name # None
                    THEN << <<"Customer", customer_name[1]>> >> ELSE <<>>)
      body == << <<"-">>, <<"Item", "Qty", "Rate", "Total">>, <<"-">> >>
              \o ItemRows(o.items, 1)
              \o << <<"-">>,
                    <<"Sub Total", OrderSubtotal(o)>>,
                    <<"GST (5%)", Hundredths(OrderTax(o))>>,
                    <<"-">>,
                    <<"Grand Total", Hundredths(OrderGrandTotal(o))>>,
                    <<"=">>,
                    <<"Thank you for your order!">> >>
  IN  header \o body

\* f"receipt_{stamp}.txt"
ReceiptFileName(stamp) == <<"receipt_", stamp, ".txt">>

\* ------------------------------------------------------------------ inputs
\* Lines the user types, per prompt: valid ones, invalid ones, and variants
\* in case and white space.
CategoryLines ==
  { <<"v", "e", "g">>, <<" ", "V", "E", "G", " ">>,
    <<"N", "o", "n", "V", "e", "g">>, <<"f", "i", "s", "h">>, <<>> }

CodeLines ==
  { <<"v", "0", "1">>, <<" ", "V", "0", "3", " ">>, <<"V", "0", "9">>,
    <<"n", "0", "7">>, <<"N", "0", "1">>, <<"N", "1", "5">>,
    <<"d", "o", "n", "e">>, <<" ", "D", "o", "n", "e">>, <<"V", "1">>, <<>> }

BigQtyA == <<"1", "0", "0", "0", "0", "0", "0", "0", "0", "0", "0", "0", "1">>
BigQtyB == <<"1", "0", "0", "0", "0", "0", "0", "0", "0", "0", "0", "1">>

QtyLines ==
  { <<"1">>, <<" ", "2", " ">>, <<"0", "0", "7">>, <<"AI3">>,
    BigQtyA, BigQtyB,
    <<"0">>, <<"0", "0">>, <<"-", "1">>, <<"+", "2">>, <<"t", "w", "o">>,
    <<"1", ".", "5">>, <<>>, <<"SUP2">> }

NameLines == { <<>>, <<" ">>, <<" ", "A", "s", "h", "a">> }

Interrupts == {"KeyboardInterrupt", "EOFError"}

\* ------------------------------------------------------------------- state
VARIABLES
  pc,           \* where the run is: a prompt, "render", "save" or "exited"
  category,     \* make_order's category (<<>> before it is chosen)
  displayed,    \* the rows display_menu printed
  code_map,     \* make_order's code_map
  items,        \* make_order's items
  pending,      \* the (name, price) code_to_item returned, while asking a quantity
  order,        \* main's order (optional)
  customer,     \* main's customer (optional)
  receipt_text, \* main's receipt_text (optional)
  last_input,   \* what the last input() gave: a line or an interrupt
  stdout,       \* what the last step printed
  renders,      \* calls of render_receipt so far
  files,        \* the files written so far, each [name, text]
  exit_status,  \* the process's exit status (optional: set once it has exited)
  uncaught      \* the exception that ended the run, "" if none

vars == <<pc, category, displayed, code_map, items, pending, order, customer,
          receipt_text, last_input, stdout, renders, files, exit_status, uncaught>>

Prompts == {"category", "code", "qty", "name"}

Line(l) == [kind |-> "line", line |-> l]
Interrupted(x) == [kind |-> x, line |-> <<>>]

Init ==
  /\ pc = "category"
  /\ category = <<>>
  /\ displayed = <<>>
  /\ code_map = <<>>
  /\ items = <<>>
  /\ pending = None
  /\ order = None
  /\ customer = None
  /\ receipt_text = None
  /\ last_input = [kind |-> "none", line |-> <<>>]
  /\ stdout = <<"Welcome to Sai Krishna Restaurant!">>
  /\ renders = 0
  /\ files = <<>>
  /\ exit_status = None
  /\ uncaught = ""

\* sys.exit(status), the end of the script, or an uncaught exception
Exit(status, exc) ==
  /\ pc' = "exited"
  /\ exit_status' = Some(status)
  /\ uncaught' = exc

Running == UNCHANGED <<exit_status, uncaught>>

\* AskInterrupted, were the exit status 1.
AskInterrupted_FailureStatus ==
  /\ pc \in Prompts
  /\ \E x \in Interrupts : last_input' = Interrupted(x)
  /\ stdout' = <<"Exiting. Goodbye!">>
  /\ Exit(1, "")
  /\ UNCHANGED <<category, displayed, code_map, items, pending, order,
                 customer, receipt_text, renders, files>>

\* ask(prompt), interrupted: KeyboardInterrupt or EOFError in input()
AskInterrupted ==
  /\ pc \in Prompts
  /\ \E x \in Interrupts : last_input' = Interrupted(x)
  /\ stdout' = <<"Exiting. Goodbye!">>
  /\ Exit(0, "")
  /\ UNCHANGED <<category, displayed, code_map, items, pending, order,
                 customer, receipt_text, renders, files>>

\* choose_category(), one turn of its loop; then display_menu and
\* build_code_map in make_order
ChooseCategory ==
  /\ pc = "category"
  /\ \E line \in CategoryLines :
       LET val == StrLower(StrStrip(line))
       IN  /\ last_input' = Line(line)
           /\ IF val \in MenuKeys
              THEN /\ category' = val
                   /\ displayed' = DisplayMenu(val)
                   /\ code_map' = BuildCodeMap(val)
                   /\ stdout' = <<"menu">>
                   /\ pc' = "code"
              ELSE /\ stdout' = <<"Invalid choice. Please type 'veg' or 'nonveg'.">>
                   /\ UNCHANGED <<pc, category, displayed, code_map>>
  /\ Running
  /\ UNCHANGED <<items, pending, order, customer, receipt_text, renders, files>>

\* CodeToItem, were the sentinel compared before the line is upper-cased.
CodeToItem_CaseSensitiveDone(map, line) ==
  LET code == StrUpper(StrStrip(line))
  IN  IF StrStrip(line) = <<"D", "O", "N", "E">> THEN Some(<<"", 0>>)
      ELSE IF code \in DOMAIN map THEN Some(map[code])
      ELSE None

\* CodeToItem, were an unknown code looked up with a default, the first item.
CodeToItem_FallsBack(map, line) ==
  LET code == StrUpper(StrStrip(line))
  IN  IF code = <<"D", "O", "N", "E">> THEN Some(<<"", 0>>)
      ELSE IF code \in DOMAIN map THEN Some(map[code])
      ELSE Some(map[CHOOSE k \in DOMAIN map : k[2] = "0" /\ k[3] = "1"])

\* What one turn of code_to_item's loop does with a line: the (name, price)
\* it returns, optional: None when it prints its message and asks again.
CodeToItem(map, line) ==
  LET code == StrUpper(StrStrip(line))
  IN  IF code = <<"D", "O", "N", "E">> THEN Some(<<"", 0>>)
      ELSE IF code \in DOMAIN map THEN Some(map[code])
      ELSE None

\* MakeOrderReturns, were the test "if not items" missing.
MakeOrderReturns_Always(its) == TRUE

\* make_order after its loop: it returns an Order unless "not items", and
\* exits then
MakeOrderReturns(its) == Len(its) > 0

\* code_to_item(), one turn of its loop; when it returns, make_order up to
\* its next prompt, its exit or its return
EnterCode ==
  /\ pc = "code"
  /\ \E line \in CodeLines, now \in 1..MaxClock :
       LET got == CodeToItem(code_map, line)
       IN  /\ last_input' = Line(line)
           /\ IF got = None
              THEN /\ stdout' = <<"Invalid code. Please enter a valid item code.">>
                   /\ Running
                   /\ UNCHANGED <<pc, pending, order>>
              ELSE IF got[1][1] # ""
              THEN /\ Len(items) < MaxItems
                   /\ pending' = got
                   /\ stdout' = <<>>
                   /\ pc' = "qty"
                   /\ Running
                   /\ UNCHANGED order
              ELSE IF ~MakeOrderReturns(items)
              THEN /\ stdout' = <<"No items selected. Exiting.">>
                   /\ Exit(0, "")
                   /\ UNCHANGED <<order, pending>>
              ELSE /\ order' = Some(Order(category, items, now))
                   /\ stdout' = <<>>
                   /\ pc' = "name"
                   /\ Running
                   /\ UNCHANGED pending
  /\ UNCHANGED <<category, displayed, code_map, items, customer, receipt_text,
                 renders, files>>

\* ask_qty(), one turn of its loop; when it returns, the rest of the turn of
\* make_order's loop
EnterQty ==
  /\ pc = "qty"
  /\ \E line \in QtyLines :
       LET raw == StrStrip(line)
       IN  /\ last_input' = Line(line)
           /\ IF ~StrIsDigit(raw)
              THEN /\ stdout' = <<"Quantity must be a positive number.">>
                   /\ Running
                   /\ UNCHANGED <<pc, items, pending>>
              ELSE IF IntOfStrRaises(raw)
              THEN /\ stdout' = <<"Traceback", "ValueError">>
                   /\ Exit(1, "ValueError")
                   /\ UNCHANGED <<items, pending>>
              ELSE IF ~IntPositive(IntOfStr(raw))
              THEN /\ stdout' = <<"Quantity must be a positive number.">>
                   /\ Running
                   /\ UNCHANGED <<pc, items, pending>>
              ELSE /\ items' = Append(items,
                                      LineItem(pending[1][1], pending[1][2], IntOfStr(raw)))
                   /\ pending' = None
                   /\ stdout' = <<"Added", pending[1][1]>>
                   /\ pc' = "code"
                   /\ Running
  /\ UNCHANGED <<category, displayed, code_map, order, customer, receipt_text,
                 renders, files>>

\* main: ask("Enter customer name (optional): ").strip() or None
EnterName ==
  /\ pc = "name"
  /\ \E line \in NameLines :
       /\ last_input' = Line(line)
       /\ customer' = IF StrStrip(line) = <<>> THEN None ELSE Some(StrStrip(line))
  /\ stdout' = <<>>
  /\ pc' = "render"
  /\ Running
  /\ UNCHANGED <<category, displayed, code_map, items, pending, order,
                 receipt_text, renders, files>>

\* main: receipt_text = render_receipt(order, customer_name=customer), and
\* print("\n" + receipt_text + "\n")
RenderAndPrint ==
  /\ pc = "render"
  /\ receipt_text' = Some(RenderReceipt(order[1], customer))
  /\ renders' = renders + 1
  /\ stdout' = <<"receipt", RenderReceipt(order[1], customer)>>
  /\ pc' = "save"
  /\ Running
  /\ UNCHANGED <<category, displayed, code_map, items, pending, order,
                 customer, last_input, files>>

\* SavedText, were the receipt rendered again for the file, without the name.
SavedText_Rerendered == RenderReceipt(order[1], None)

\* The text main hands to save_receipt.
SavedText == receipt_text[1]

\* save_receipt(text) and main's last print; open() or write() may raise
\* OSError, which nothing catches.  files holds the completed writes.
SaveReceipt ==
  /\ pc = "save"
  /\ \/ /\ \E stamp \in order[1].created_at..MaxClock :
             files' = Append(files, [name |-> ReceiptFileName(stamp),
                                     text |-> SavedText])
        /\ stdout' = <<"Receipt saved to">>
        /\ Exit(0, "")
     \/ /\ stdout' = <<"Traceback", "OSError">>
        /\ Exit(1, "OSError")
        /\ UNCHANGED files
  /\ UNCHANGED <<category, displayed, code_map, items, pending, order,
                 customer, receipt_text, last_input, renders>>

\* KeyboardInterrupt while main is not in input(): the handler around main()
\* prints and the script ends
InterruptOutsideAsk ==
  /\ pc \in {"render", "save"}
  /\ stdout' = <<"Canceled by user.">>
  /\ Exit(0, "")
  /\ UNCHANGED <<category, displayed, code_map, items, pending, order,
                 customer, receipt_text, last_input, renders, files>>

Next ==
  \/ AskInterrupted
  \/ ChooseCategory
  \/ EnterCode
  \/ EnterQty
  \/ EnterName
  \/ RenderAndPrint
  \/ SaveReceipt
  \/ InterruptOutsideAsk

Spec == Init /\ [][Next]_vars

\* ================================================================== claims
\* What the claims speak of.
Farewell == <<"Exiting. Goodbye!">>
InvalidCodeMessage == <<"Invalid code. Please enter a valid item code.">>
QuantityMessage == <<"Quantity must be a positive number.">>
Done == <<"d", "o", "n", "e">>

\* The line given is the sentinel, in any case.
IsSentinel(l) == StrLower(StrStrip(l)) = Done

\* The codes the menu on the screen shows.
DisplayedCodes == {displayed[i][1] : i \in 1..Len(displayed)}

\* A string of decimal digits that are not all zero.
IsPositiveIntegerString(raw) ==
  /\ Len(raw) > 0
  /\ \A i \in 1..Len(raw) : IsDecimalChar(raw[i])
  /\ \E i \in 1..Len(raw) : DecimalValue(raw[i]) > 0

RECURSIVE NatOfDigits(_)
\* The number a short string of decimal digits denotes.
NatOfDigits(raw) ==
  IF Len(raw) = 0 THEN 0
  ELSE 10 * NatOfDigits(SubSeq(raw, 1, Len(raw) - 1)) + DecimalValue(raw[Len(raw)])

\* The process has exited: nothing happens any more.
ExitedIsFinal == pc = "exited" => UNCHANGED vars

\* The field a receipt line with this label shows.
ReceiptField(text, label) ==
  text[CHOOSE i \in 1..Len(text) : text[i][1] = label][2]

RECURSIVE IntModFrom(_, _, _, _)
IntModFrom(a, p, i, acc) ==
  IF i = 0 THEN acc ELSE IntModFrom(a, p, i - 1, (acc * Base + a[i]) % p)

\* a % p for a natural number p < Base
IntMod(a, p) == IntModFrom(a, p, Len(a), 0)

\* Four primes below Base; their product is above 2^59, so an int below 2^59
\* is known by its four residues.
Moduli == {32749, 32719, 32717, 32713}

RECURSIVE SumOfProductsMod(_, _)
\* (the sum over the line items of unit_price * qty) % p
SumOfProductsMod(its, p) ==
  IF Len(its) = 0 THEN 0
  ELSE (SumOfProductsMod(Tail(its), p)
        + Head(its).unit_price * IntMod(Head(its).qty, p)) % p

RECURSIVE SumOfSmallProducts(_)
\* the sum over the line items of unit_price * qty, every qty below Base
SumOfSmallProducts(its) ==
  IF Len(its) = 0 THEN 0
  ELSE SumOfSmallProducts(Tail(its)) + Head(its).unit_price * Head(its).qty[1]

\* C1: at every input prompt an interrupt or end-of-input can happen, and it
\* cancels the run: the farewell is printed, the process exits with status 0
\* with no exception, nothing is appended, rendered or written in that step,
\* and once the process has exited nothing happens at all.
C1_InterruptCancels ==
  [][/\ pc \in Prompts => ENABLED AskInterrupted
     /\ (pc \in Prompts /\ last_input'.kind \in Interrupts) =>
          /\ pc' = "exited"
          /\ exit_status' = Some(0)
          /\ uncaught' = ""
          /\ stdout' = Farewell
          /\ items' = items
          /\ order' = order
          /\ receipt_text' = receipt_text
          /\ renders' = renders
          /\ files' = files
     /\ ExitedIsFinal]_vars

\* C1 witness: end-of-input at the quantity prompt, one item already taken.
C1_Witness ==
  /\ pc = "exited"
  /\ last_input.kind = "EOFError"
  /\ pending # None
  /\ Len(items) = 1
  /\ stdout = Farewell
  /\ exit_status = Some(0)
  /\ files = <<>>

\* C2: a line given at the category, item-code or quantity prompt never ends
\* the run with an uncaught exception or a failure status, and a line that is
\* not accepted (no category, no code or sentinel, no positive integer) leaves
\* the run at the same prompt with a message printed.
C2_InputErrorsReprompt ==
  [][(pc \in {"category", "code", "qty"} /\ last_input'.kind = "line") =>
       LET l == last_input'.line
           accepted ==
             CASE pc = "category" -> StrLower(StrStrip(l)) \in MenuKeys
               [] pc = "code" ->
                    IsSentinel(l) \/ StrUpper(StrStrip(l)) \in DisplayedCodes
               [] pc = "qty" -> IsPositiveIntegerString(StrStrip(l))
       IN  /\ uncaught' = ""
           /\ exit_status' \in {None, Some(0)}
           /\ ~accepted => (pc' = pc /\ Len(stdout') > 0)]_vars

\* C3: the sentinel given with no item selected abandons the order: exit
\* status 0, no exception, no order, no customer-name prompt, no receipt
\* rendered, no file written, then and ever after.
C3_ZeroItemsAbandons ==
  [][/\ (/\ pc = "code"
         /\ last_input'.kind = "line"
         /\ IsSentinel(last_input'.line)
         /\ Len(items) = 0) =>
          /\ pc' = "exited"
          /\ exit_status' = Some(0)
          /\ uncaught' = ""
          /\ order' = None
          /\ customer' = None
          /\ receipt_text' = None
          /\ renders' = 0
          /\ files' = <<>>
     /\ ExitedIsFinal]_vars

\* C3 witness: " Done" typed first at the item-code prompt.
C3_Witness ==
  /\ pc = "exited"
  /\ last_input = Line(<<" ", "D", "o", "n", "e">>)
  /\ Len(items) = 0
  /\ category \in MenuKeys
  /\ stdout = <<"No items selected. Exiting.">>
  /\ exit_status = Some(0)

\* C4: an Order that exists has at least one line item, of a category of the
\* catalog; so has the Order the renderer was given.
C4_OrderNonEmpty ==
  /\ order # None =>
       /\ Len(order[1].items) >= 1
       /\ order[1].items = items
       /\ order[1].category \in MenuKeys
  /\ renders > 0 => order # None
  /\ receipt_text # None =>
       /\ order # None
       /\ \E i \in 1..Len(receipt_text[1]) :
            receipt_text[1][i][1] = order[1].items[1].name

\* C4 witness: an order of one item, rendered.
C4_Witness ==
  /\ order # None
  /\ Len(order[1].items) = 1
  /\ renders = 1
  /\ receipt_text # None

\* C5: a line at the item-code prompt that is neither the sentinel nor a
\* code of the menu shown creates no line item, leaves items, category and
\* code map as they are, asks for no quantity, and asks for a code again.
C5_InvalidCodeRejected ==
  [][(/\ pc = "code"
      /\ last_input'.kind = "line"
      /\ ~IsSentinel(last_input'.line)
      /\ StrUpper(StrStrip(last_input'.line)) \notin DisplayedCodes) =>
       /\ pc' = "code"
       /\ items' = items
       /\ category' = category
       /\ code_map' = code_map
       /\ pending' = None
       /\ order' = None
       /\ stdout' = InvalidCodeMessage
       /\ exit_status' = None]_vars

\* C5 witness: in the veg menu, after one item, the code of a nonveg item.
C5_Witness ==
  /\ pc = "code"
  /\ category = Veg
  /\ Len(items) = 1
  /\ last_input = Line(<<"n", "0", "7">>)
  /\ stdout = InvalidCodeMessage
  /\ pending = None

\* C6: at the quantity prompt a positive integer string is accepted and one
\* line item of that quantity is appended ("007" gives 7); every other line
\* is rejected with the message and asked again; every quantity is > 0.
C6_QuantityParser ==
  [][(pc = "qty" /\ last_input'.kind = "line") =>
       LET raw == StrStrip(last_input'.line)
       IN  IF IsPositiveIntegerString(raw)
           THEN /\ pc' = "code"
                /\ Len(items') = Len(items) + 1
                /\ SubSeq(items', 1, Len(items)) = items
                /\ IntPositive(items'[Len(items')].qty)
                /\ Len(raw) <= 4 =>
                     items'[Len(items')].qty = IntOfNat(NatOfDigits(raw))
                /\ raw = <<"0", "0", "7">> => items'[Len(items')].qty = <<7>>
           ELSE /\ pc' = "qty"
                /\ items' = items
                /\ stdout' = QuantityMessage]_vars

\* C7 (as claimed): the receipt of every order shows, in hundredths, a tax of
\* 5 * subtotal and a grand total of 105 * subtotal.
C7_TaxAndTotalExact ==
  receipt_text # None =>
    /\ ReceiptField(receipt_text[1], "GST (5%)")
         = IntMulSmall(OrderSubtotal(order[1]), 5)
    /\ ReceiptField(receipt_text[1], "Grand Total")
         = IntMulSmall(OrderSubtotal(order[1]), 105)

\* C7, for small subtotals: the same for every order whose subtotal is below 2^45; and
\* Idli x 2 with Veg Biryani x 1 gives subtotal 200, tax 10.00, total 210.00.
C7_TaxAndTotalExactBelow ==
  receipt_text # None =>
    /\ BitLength(OrderSubtotal(order[1])) <= 45 =>
         /\ ReceiptField(receipt_text[1], "GST (5%)")
              = IntMulSmall(OrderSubtotal(order[1]), 5)
         /\ ReceiptField(receipt_text[1], "Grand Total")
              = IntMulSmall(OrderSubtotal(order[1]), 105)
    /\ order[1].items = <<LineItem("Idli", 50, <<2>>),
                          LineItem("Veg Biryani", 100, <<1>>)>> =>
         /\ ReceiptField(receipt_text[1], "Sub Total") = <<200>>
         /\ ReceiptField(receipt_text[1], "GST (5%)") = <<1000>>
         /\ ReceiptField(receipt_text[1], "Grand Total") = <<21000>>

\* C7 witness: a receipt for one Chicken Fried Rice (299) times 100000000001,
\* a subtotal of 45 bits whose tax and total have odd hundredths.
C7_Witness ==
  /\ receipt_text # None
  /\ Len(order[1].items) = 1
  /\ order[1].items[1].unit_price = 299
  /\ BitLength(OrderSubtotal(order[1])) = 45

\* C8: every line total is unit_price * qty and the subtotal is the sum of
\* unit_price * qty over the line items, exactly: equal as numbers when the
\* quantities are small, and equal in every residue that tells ints below
\* 2^59 apart; the receipt shows that subtotal.
C8_SubtotalExact ==
  LET sub == OrderSubtotal(Order(category, items, 0))
  IN  /\ BitLength(sub) <= 59
      /\ \A p \in Moduli :
           /\ IntMod(sub, p) = SumOfProductsMod(items, p)
           /\ \A i \in 1..Len(items) :
                IntMod(LineItemTotal(items[i]), p)
                  = (items[i].unit_price * IntMod(items[i].qty, p)) % p
      /\ (\A i \in 1..Len(items) : Len(items[i].qty) = 1) =>
           sub = IntOfNat(SumOfSmallProducts(items))
      /\ receipt_text # None =>
           ReceiptField(receipt_text[1], "Sub Total") = sub

\* C8 witness: the same item selected twice, once in a large quantity.
C8_Witness ==
  /\ Len(items) = 2
  /\ items[1].name = items[2].name
  /\ items[1].qty = <<7>>
  /\ Len(items[2].qty) > 1
  /\ receipt_text # None

\* The code of the idx-th item of a category: its initial in upper case and
\* two decimal digits.
ExpectedCode(cat, idx) ==
  <<UpperLetters[CHOOSE k \in 1..26 : LowerLetters[k] = cat[1]],
    DigitChars[(idx \div 10) + 1], DigitChars[(idx % 10) + 1]>>

\* C9: once a category is chosen, the code map used to resolve codes and the
\* menu shown agree: the same codes, each resolving to the name and price
\* shown beside it; the codes are the initial and the two-digit position in
\* catalog order from 01, and no two items share one.
C9_CodeMapMatchesMenu ==
  category # <<>> =>
    /\ Len(displayed) = Len(MENUS(category))
    /\ DOMAIN code_map = DisplayedCodes
    /\ \A i \in 1..Len(displayed) :
         /\ code_map[displayed[i][1]] = <<displayed[i][3], displayed[i][2]>>
         /\ displayed[i][1] = ExpectedCode(category, i)
         /\ <<displayed[i][3], displayed[i][2]>> = MENUS(category)[i]
         /\ \A j \in 1..Len(displayed) :
              displayed[i][1] = displayed[j][1] => i = j

\* C9 witness: the nonveg menu, whose last code has a two-digit position.
C9_Witness ==
  /\ category = NonVeg
  /\ <<"N", "1", "4">> \in DOMAIN code_map
  /\ code_map[<<"N", "1", "4">>] = <<"Chicken Lollipop", 299>>
  /\ displayed[14] = <<<<"N", "1", "4">>, 299, "Chicken Lollipop">>

\* A run cut short by an interrupt.
WasInterrupted ==
  last_input.kind \in Interrupts \/ stdout = <<"Canceled by user.">>

\* What C10 says of rendering and saving, but for "exactly once".
RenderThenSave ==
  /\ renders <= 1
  /\ Len(files) <= 1
  /\ renders = 1 <=> receipt_text # None
  /\ receipt_text # None =>
       /\ order # None
       /\ Len(order[1].items) >= 1
       /\ last_input.kind = "line"
       /\ customer = IF StrStrip(last_input.line) = <<>>
                     THEN None ELSE Some(StrStrip(last_input.line))
       /\ receipt_text[1] = RenderReceipt(order[1], customer)
  /\ pc = "save" => stdout = <<"receipt", receipt_text[1]>>
  /\ files # <<>> =>
       /\ pc = "exited"
       /\ receipt_text # None
       /\ files[1].text = receipt_text[1]

\* C10 (as claimed): in every run the finalized order is rendered exactly
\* once; at most one file is written, after the order was finalized, the
\* name prompt answered and the receipt rendered and printed, and it holds
\* the rendered text.
C10_RenderedExactlyOnce ==
  /\ RenderThenSave
  /\ (pc = "exited" /\ order # None) => renders = 1

\* C10 (amended): the same, the order being rendered exactly once in every
\* run that no interrupt cuts short, and at most once in every run.
C10_RenderedOnceUnlessInterrupted ==
  /\ RenderThenSave
  /\ (pc = "exited" /\ order # None /\ ~WasInterrupted) => renders = 1

\* C10 witness: a run to its end, a customer named, the receipt saved.
C10_Witness ==
  /\ pc = "exited"
  /\ Len(files) = 1
  /\ customer # None
  /\ renders = 1
  /\ exit_status = Some(0)

====
